---- MODULE Spec2Model ----
(***************************************************************************)
(* Model of src/src/extension.ts: the backport command of the editor       *)
(* extension (token check, commit prompt, paginated tag listing, git       *)
(* checkout with the "dubious ownership" remediation, remote patch call    *)
(* with the demonstration fallback) and the line-range patcher             *)
(* modifyFileWithPatch, modelled on character sequences.                   *)
(***************************************************************************)
EXTENDS Integers, Sequences, FiniteSets, TLC

(***************************************************************************)
(* Bounds of the model.                                                    *)
(***************************************************************************)
MaxFileLen == 3
MaxPatchLen == 2
MaxLine == 3
MaxPages == 3
MaxPerPage == 2
CmdMaxPages == 1

(***************************************************************************)
(* Characters.  Text is a sequence of one-character strings.               *)
(***************************************************************************)
SP == " "
TAB == "\t"
CR == "\r"
LF == "\n"

FileChars == {SP, TAB, CR, LF, "a"}
PatchChars == {CR, LF, "b"}

\* The characters String.prototype.trimStart removes (WhiteSpace and
\* LineTerminator of ECMAScript), restricted to the model's alphabet.
JsWhiteSpace == {SP, TAB, CR, LF}

\* The value JavaScript calls undefined (a dismissed prompt, a missing key).
Undefined == "undefined"

SeqsUpTo(S, n) == UNION {[1..k -> S] : k \in 0..n}

Min(a, b) == IF a < b THEN a ELSE b
Max(a, b) == IF a > b THEN a ELSE b

\* !x for a string or undefined.
Truthy(x) == x # Undefined /\ x # ""

(***************************************************************************)
(* String helpers of the patcher.                                          *)
(***************************************************************************)
\* The "\r?" of the separator /\r?\n/: a CR right before the LF belongs to
\* the separator.
StripCR(cur) ==
  IF Len(cur) > 0 /\ cur[Len(cur)] = CR THEN SubSeq(cur, 1, Len(cur) - 1) ELSE cur

\* raw.split(/\r?\n/): the text between consecutive LFs, each piece without
\* the CR that precedes its LF.
Split(s) ==
  LET lfs == {i \in 1..Len(s) : s[i] = LF}
      n == Cardinality(lfs)
      Nth(k) == CHOOSE p \in lfs : Cardinality({q \in lfs : q < p}) = k - 1
      From(k) == IF k = 1 THEN 1 ELSE Nth(k - 1) + 1
  IN [k \in 1..(n + 1) |->
        IF k = n + 1 THEN SubSeq(s, From(k), Len(s))
        ELSE StripCR(SubSeq(s, From(k), Nth(k) - 1))]

\* lines.join(sep)
RECURSIVE Join(_, _)
Join(lines, sep) ==
  IF lines = <<>> THEN <<>>
  ELSE IF Len(lines) = 1 THEN lines[1]
  ELSE lines[1] \o sep \o Join(Tail(lines), sep)

\* line.trimStart()
RECURSIVE TrimStart(_)
TrimStart(line) ==
  IF line # <<>> /\ Head(line) \in JsWhiteSpace THEN TrimStart(Tail(line)) ELSE line

\* c.repeat(n)
Repeat(c, n) == [i \in 1..n |-> c]

\* a.slice(begin, end), 0-based, end exclusive, negative indices from the end.
Slice(a, begin, end) ==
  LET n == Len(a)
      b == IF begin < 0 THEN Max(n + begin, 0) ELSE Min(begin, n)
      e == IF end < 0 THEN Max(n + end, 0) ELSE Min(end, n)
  IN SubSeq(a, b + 1, e)

(***************************************************************************)
(* modifyFileWithPatch, lines 82-110.                                      *)
(***************************************************************************)
\* The range test without its third disjunct.
InvalidRange_NoOrderTest(startLine, endLine, n) ==
  startLine <= 0 \/ endLine > n

\* The range test of line 91.
InvalidRange(startLine, endLine, n) ==
  startLine <= 0 \/ endLine > n \/ startLine > endLine

\* Lines 95-96: as many spaces as the line has leading white-space characters.
Indent(line) == Repeat(SP, Len(line) - Len(TrimStart(line)))

\* Lines 98-101.
IndentedPatch(indent, patch) ==
  LET pl == Split(patch)
  IN Join([i \in 1..Len(pl) |-> indent \o pl[i]], <<LF>>)

\* The splice with lines.slice(endLine - 1): the last replaced line is kept.
Updated_KeepsLastLine(lines, startLine, endLine, indentedPatch) ==
  Join(Slice(lines, 0, startLine - 1) \o <<indentedPatch>>
         \o Slice(lines, endLine - 1, Len(lines)), <<LF>>)

\* Lines 103-107.
Updated(lines, startLine, endLine, indentedPatch) ==
  Join(Slice(lines, 0, startLine - 1) \o <<indentedPatch>>
         \o Slice(lines, endLine, Len(lines)), <<LF>>)

\* The whole function on a file [exists, content]: what it ends with
\* ("ok" or the error thrown) and what it writes.
ModifyFileWithPatch(file, startLine, endLine, patch) ==
  IF ~file.exists
  THEN [result |-> "ENOENT", wrote |-> FALSE, raw |-> <<>>, content |-> <<>>]
  ELSE
    LET raw == file.content
        lines == Split(raw)
    IN IF InvalidRange(startLine, endLine, Len(lines))
       THEN [result |-> "Invalid line range", wrote |-> FALSE, raw |-> raw,
             content |-> <<>>]
       ELSE IF startLine \notin 1..Len(lines)
       THEN \* lines[startLine - 1] is undefined: reading .length throws
            [result |-> "TypeError", wrote |-> FALSE, raw |-> raw, content |-> <<>>]
       ELSE [result |-> "ok", wrote |-> TRUE, raw |-> raw,
             content |-> Updated(lines, startLine, endLine,
                                 IndentedPatch(Indent(lines[startLine]), patch))]

(***************************************************************************)
(* Values of the environment.                                              *)
(***************************************************************************)
\* What the masked input box of setGitHubToken can resolve to.
TokenInputs == {Undefined, "", "ghp_A"}

\* What the commit input box can resolve to.
CommitInputs == {Undefined, "", "abc123"}

TagNames == {"v1", "v2"}

\* One reply of the tags endpoint, after res.json(): an array of tag objects
\* (their names), any other JSON value, or a failed fetch / unparsable body.
ArrayPage(names) == [kind |-> "array", names |-> names]
ObjectPage == [kind |-> "object", names |-> <<>>]
ErrorPage == [kind |-> "error", names |-> <<>>]
PageValues == {ArrayPage(ns) : ns \in SeqsUpTo(TagNames, MaxPerPage)}
                \cup {ObjectPage, ErrorPage}

\* The reply to a request for page p: the endpoint answers pages past its
\* last one with the empty array.
PageReply(script, p) == IF p \in 1..Len(script) THEN script[p] ELSE ArrayPage(<<>>)

\* Error texts of a failed git command (err.stderr ?? err.message), as words;
\* the empty text stands for a missing one.
DubiousMsg == <<"fatal:", "detected", "dubious ownership", "in", "repository">>
OtherMsg == <<"error:", "pathspec", "did not match">>
ErrMsgs == {DubiousMsg, OtherMsg, <<>>}

\* msg?.includes(w)
Includes(msg, w) == \E i \in 1..Len(msg) : msg[i] = w

\* The patch instruction of lines 204-213.
DemoLine1 ==
  <<"v", "o", "i", "d", " ", "E", "x", "a", "m", "p", "l", "e", "F", "u", "n", "c", "t", "i", "o", "n", "(", ")", " ", "{">>
DemoLine2 ==
  <<" ", " ", "/", "/", " ", "T", "h", "i", "s", " ", "i", "s", " ", "t", "h", "e", " ", "u", "p", "d", "a", "t", "e", "d", " ", "i", "m", "p", "l", "e", "m", "e", "n", "t", "a", "t", "i", "o", "n">>
DemoLine3 ==
  <<" ", " ", "i", "n", "t", " ", "x", " ", "=", " ", "4", "2", ";">>
DemoLine4 ==
  <<" ", " ", "p", "r", "i", "n", "t", "f", "(", "\"", "%", "d", "\"", ",", " ", "x", ")", ";">>
DemoLine5 ==
  <<"}">>
TestPatch ==
  [filePath |-> "tensorflow/cc/tools/freeze_saved_model_test.cc",
   startLine |-> 16, endLine |-> 17,
   patch |-> Join(<<DemoLine1, DemoLine2, DemoLine3, DemoLine4, DemoLine5>>, <<LF>>)]

NoPatch == [filePath |-> "", startLine |-> 0, endLine |-> 0, patch |-> <<>>]

\* Patch instructions the remote service may answer with.
ApiPatch(s, e, text) ==
  [filePath |-> "target.cc", startLine |-> s, endLine |-> e, patch |-> text]
ApiPatches == {ApiPatch(s, e, t) : s \in 0..MaxLine, e \in 0..MaxLine,
                                   t \in SeqsUpTo(PatchChars, MaxPatchLen)}
CmdPatches == {ApiPatch(s, e, <<"b">>) : s \in 0..2, e \in 1..2}

\* Files the patch instruction's path may resolve to.
File(content) == [exists |-> TRUE, content |-> content]
MissingFile == [exists |-> FALSE, content |-> <<>>]
Files == {File(c) : c \in SeqsUpTo(FileChars, MaxFileLen)}
CmdFiles == {MissingFile, File(<<"a">>), File(<<TAB, "a", LF, "a">>),
             File(Repeat(LF, 16))}

(***************************************************************************)
(* State.                                                                  *)
(***************************************************************************)
VARIABLES
  globalState,   \* ctx.globalState.get('githubToken')
  setCalls,      \* invocations of setGitHubToken so far
  pc,            \* position of backportToCommand
  outcome,       \* of the promise backportToCommand returns
  token,         \* locals of backportToCommand
  commitHash,
  tag,
  patch,
  pages,         \* what the tags endpoint holds, page by page
  page,          \* locals of fetchTags
  tags,
  workspaceOpen, \* vscode.workspace.workspaceFolders?.[0] is defined
  caught,        \* checkoutTag entered its catch block
  msg,           \* locals of checkoutTag
  ok,
  disk,          \* the file patch.filePath resolves to
  raw,           \* what modifyFileWithPatch read
  patchResult,   \* how modifyFileWithPatch ended
  apiResult,     \* how callPatchApi ended
  useTestPatch,  \* the answer to the fallback prompt
  log            \* external effects of backportToCommand, in order

vars == <<globalState, setCalls, pc, outcome, token, commitHash, tag, patch,
          pages, page, tags, workspaceOpen, caught, msg, ok, disk, raw,
          patchResult, apiResult, useTestPatch, log>>

MaxSetCalls == 1

\* An effect, named by the call and the source line that makes it.
Eff(op, line, arg) == [op |-> op, line |-> line, arg |-> arg]
Logged(op, line, arg) == log' = Append(log, Eff(op, line, arg))
Logged2(e1, e2) == log' = log \o <<e1, e2>>

Count(line) == Cardinality({i \in 1..Len(log) : log[i].line = line})
CountOp(op) == Cardinality({i \in 1..Len(log) : log[i].op = op})

\* The locals before the command runs.
Locals ==
  /\ token = Undefined /\ commitHash = Undefined /\ tag = Undefined
  /\ patch = NoPatch /\ page = 0 /\ tags = <<>>
  /\ caught = FALSE /\ msg = <<>> /\ ok = Undefined
  /\ raw = <<>> /\ patchResult = "none" /\ log = <<>>
  /\ apiResult = "none" /\ useTestPatch = Undefined

Init ==
  /\ globalState = Undefined /\ setCalls = 0
  /\ pc = "idle" /\ outcome = "none"
  /\ Locals
  /\ pages \in SeqsUpTo(PageValues, CmdMaxPages)
  /\ workspaceOpen \in BOOLEAN
  /\ disk \in CmdFiles

(***************************************************************************)
(* setGitHubToken, lines 20-31.                                            *)
(***************************************************************************)
SetGitHubToken(input) ==
  /\ setCalls < MaxSetCalls
  /\ setCalls' = setCalls + 1
  /\ globalState' = IF Truthy(input) THEN input ELSE globalState
  /\ UNCHANGED <<pc, outcome, token, commitHash, tag, patch, pages, page, tags,
                 workspaceOpen, caught, msg, ok, disk, raw, patchResult, log,
                 apiResult, useTestPatch>>

(***************************************************************************)
(* backportToCommand, lines 154-233, one action per await.                 *)
(***************************************************************************)
\* The command ends: its promise resolves.
Return == pc' = "done" /\ outcome' = "returned"

\* An exception leaves the command: its promise rejects.
Reject == pc' = "done" /\ outcome' = "rejected"

\* The token check without its return: the message is shown and the command
\* goes on.
TokenCheck_NoReturn ==
  /\ pc = "idle"
  /\ token' = globalState
  /\ IF ~Truthy(globalState)
     THEN Logged2(Eff("showErrorMessage", 158, 0), Eff("showInputBox", 165, 0))
     ELSE Logged("showInputBox", 165, 0)
  /\ pc' = "commitPrompt"
  /\ UNCHANGED <<globalState, setCalls, outcome, commitHash, tag, patch, pages,
                 page, tags, workspaceOpen, caught, msg, ok, disk, raw,
                 patchResult, apiResult, useTestPatch>>

\* Lines 156-168: the token check, then the commit prompt opens.
TokenCheck ==
  /\ pc = "idle"
  /\ token' = globalState
  /\ IF ~Truthy(globalState)
     THEN Logged("showErrorMessage", 158, 0) /\ Return
     ELSE Logged("showInputBox", 165, 0) /\ pc' = "commitPrompt"
          /\ UNCHANGED outcome
  /\ UNCHANGED <<globalState, setCalls, commitHash, tag, patch, pages, page,
                 tags, workspaceOpen, caught, msg, ok, disk, raw, patchResult,
                 apiResult, useTestPatch>>

\* Lines 165-172: the commit prompt resolves; fetchTags starts.
CommitPrompt(input) ==
  /\ pc = "commitPrompt"
  /\ commitHash' = input
  /\ IF ~Truthy(input)
     THEN Return /\ UNCHANGED <<page, tags>>
     ELSE pc' = "fetchTags" /\ page' = 1 /\ tags' = <<>> /\ UNCHANGED outcome
  /\ UNCHANGED <<globalState, setCalls, token, tag, patch, pages, workspaceOpen,
                 caught, msg, ok, disk, raw, patchResult, log,
                 apiResult, useTestPatch>>

\* The loop test without Array.isArray: only an empty array ends the loop.
LoopEnds_EmptyArrayOnly(data) == data.kind = "array" /\ Len(data.names) = 0

\* Line 42: the reply that ends the loop.
LoopEnds(data) == data.kind # "array" \/ Len(data.names) = 0

\* Lines 38-45: one turn of the loop of fetchTags.  A failed fetch or an
\* unparsable body throws out of fetchTags and, line 172 being outside any
\* try, out of backportToCommand.  After the loop the quick pick opens.
FetchTagsPage ==
  /\ pc = "fetchTags"
  /\ LET data == PageReply(pages, page)
     IN IF data.kind = "error"
        THEN /\ Logged("fetch", 40, page)
             /\ Reject
             /\ UNCHANGED <<page, tags>>
        ELSE IF LoopEnds(data)
        THEN /\ Logged2(Eff("fetch", 40, page), Eff("showQuickPick", 172, 0))
             /\ pc' = "tagPrompt"
             /\ UNCHANGED <<outcome, page, tags>>
        ELSE /\ Logged("fetch", 40, page)
             /\ tags' = tags \o data.names
             /\ page' = page + 1
             /\ UNCHANGED <<pc, outcome>>
  /\ UNCHANGED <<globalState, setCalls, token, commitHash, tag, patch, pages,
                 workspaceOpen, caught, msg, ok, disk, raw, patchResult,
                 apiResult, useTestPatch>>

\* Lines 172-179 and 52-53: the quick pick resolves with one of the listed
\* tags or undefined; checkoutTag starts with the workspace test.
TagPrompt(pick) ==
  /\ pc = "tagPrompt"
  /\ pick = Undefined \/ \E i \in 1..Len(tags) : tags[i] = pick
  /\ tag' = pick
  /\ IF ~Truthy(pick)
     THEN Return /\ UNCHANGED log
     ELSE IF ~workspaceOpen
     THEN Logged("showErrorMessage", 179, 0) /\ Return
     ELSE pc' = "gitFetch" /\ UNCHANGED <<outcome, log>>
  /\ UNCHANGED <<globalState, setCalls, token, commitHash, patch, pages, page,
                 tags, workspaceOpen, caught, msg, ok, disk, raw, patchResult,
                 apiResult, useTestPatch>>

\* The catch block when the command does not return after showing the error.
CheckoutCatch_NoReturn(m) ==
  /\ caught' = TRUE
  /\ msg' = m
  /\ pc' = IF Includes(m, "dubious ownership") THEN "dubiousPrompt" ELSE "callPatchApi"
  /\ UNCHANGED outcome

\* Lines 59-75 and 179: the catch block of checkoutTag with error text m.
\* The recognised text opens the modal prompt; any other is rethrown and
\* shown by the command.
CheckoutCatch(m) ==
  /\ caught' = TRUE
  /\ msg' = m
  /\ IF Includes(m, "dubious ownership")
     THEN pc' = "dubiousPrompt" /\ UNCHANGED outcome
     ELSE Return

\* Line 56: git fetch --tags.
GitFetchTags(failed, m) ==
  /\ pc = "gitFetch"
  /\ IF failed
     THEN /\ CheckoutCatch(m)
          /\ IF Includes(m, "dubious ownership")
             THEN Logged2(Eff("git fetch --tags", 56, 0),
                          Eff("showWarningMessage", 62, 0))
             ELSE Logged2(Eff("git fetch --tags", 56, 0),
                          Eff("showErrorMessage", 179, 0))
     ELSE /\ Logged("git fetch --tags", 56, 0)
          /\ pc' = "gitCheckout"
          /\ UNCHANGED <<outcome, caught, msg>>
  /\ UNCHANGED <<globalState, setCalls, token, commitHash, tag, patch, pages,
                 page, tags, workspaceOpen, ok, disk, raw, patchResult,
                 apiResult, useTestPatch>>

\* Lines 57-58 and 189-190: git checkout <tag>; on success the remote call
\* is sent.
GitCheckout(failed, m) ==
  /\ pc = "gitCheckout"
  /\ IF failed
     THEN /\ CheckoutCatch(m)
          /\ IF Includes(m, "dubious ownership")
             THEN Logged2(Eff("git checkout", 57, 0),
                          Eff("showWarningMessage", 62, 0))
             ELSE Logged2(Eff("git checkout", 57, 0),
                          Eff("showErrorMessage", 179, 0))
     ELSE /\ log' = log \o <<Eff("git checkout", 57, 0),
                            Eff("showInformationMessage", 58, 0),
                            Eff("showInformationMessage", 189, 0)>>
          /\ pc' = "callPatchApi"
          /\ UNCHANGED <<outcome, caught, msg>>
  /\ UNCHANGED <<globalState, setCalls, token, commitHash, tag, patch, pages,
                 page, tags, workspaceOpen, ok, disk, raw, patchResult,
                 apiResult, useTestPatch>>

\* The modal prompt when its answer is not tested.
DubiousPrompt_NoConfirm(answer) ==
  /\ pc = "dubiousPrompt"
  /\ ok' = answer
  /\ pc' = "gitConfig"
  /\ UNCHANGED <<globalState, setCalls, outcome, token, commitHash, tag, patch,
                 pages, page, tags, workspaceOpen, caught, msg, disk, raw,
                 patchResult, apiResult, useTestPatch, log>>

\* Lines 62-75: the modal prompt resolves.
DubiousPrompt(answer) ==
  /\ pc = "dubiousPrompt"
  /\ ok' = answer
  /\ IF answer = "Add & Retry"
     THEN pc' = "gitConfig" /\ UNCHANGED <<outcome, log>>
     ELSE Logged("showErrorMessage", 179, 0) /\ Return
  /\ UNCHANGED <<globalState, setCalls, token, commitHash, tag, patch, pages,
                 page, tags, workspaceOpen, caught, msg, disk, raw, patchResult,
                 apiResult, useTestPatch>>

\* Line 67: git config --global --add safe.directory.  Its failure leaves
\* checkoutTag from inside the catch block.
GitConfig(failed) ==
  /\ pc = "gitConfig"
  /\ IF failed
     THEN /\ Logged2(Eff("git config safe.directory", 67, 0),
                     Eff("showErrorMessage", 179, 0))
          /\ Return
     ELSE /\ Logged("git config safe.directory", 67, 0)
          /\ pc' = "gitRetry"
          /\ UNCHANGED outcome
  /\ UNCHANGED <<globalState, setCalls, token, commitHash, tag, patch, pages,
                 page, tags, workspaceOpen, caught, msg, ok, disk, raw,
                 patchResult,
                 apiResult, useTestPatch>>

\* Lines 68-72 and 189-190: the second git checkout <tag>.
GitRetry(failed) ==
  /\ pc = "gitRetry"
  /\ IF failed
     THEN /\ Logged2(Eff("git checkout", 68, 0), Eff("showErrorMessage", 179, 0))
          /\ Return
     ELSE /\ log' = log \o <<Eff("git checkout", 68, 0),
                            Eff("showInformationMessage", 69, 0),
                            Eff("showInformationMessage", 189, 0)>>
          /\ pc' = "callPatchApi"
          /\ UNCHANGED outcome
  /\ UNCHANGED <<globalState, setCalls, token, commitHash, tag, patch, pages,
                 page, tags, workspaceOpen, caught, msg, ok, disk, raw,
                 patchResult,
                 apiResult, useTestPatch>>

\* Lines 127-149 and 190-201: axios.post resolves with a patch instruction,
\* or rejects (network error, non-2xx status) and the fallback prompt opens.
CallPatchApi(failed, data) ==
  /\ pc = "callPatchApi"
  /\ IF failed
     THEN /\ Logged2(Eff("axios.post", 131, 0), Eff("showWarningMessage", 198, 0))
          /\ apiResult' = "failed"
          /\ pc' = "fallbackPrompt"
          /\ UNCHANGED patch
     ELSE /\ Logged2(Eff("axios.post", 131, 0),
                     Eff("showInformationMessage", 191, 0))
          /\ apiResult' = "ok"
          /\ patch' = data
          /\ pc' = "applyPatch"
  /\ UNCHANGED <<globalState, setCalls, outcome, token, commitHash, tag, pages,
                 page, tags, workspaceOpen, caught, msg, ok, disk, raw,
                 patchResult,
                 useTestPatch>>

\* The fallback prompt when only "Cancel" aborts.
FallbackPrompt_UnlessCancel(answer) ==
  /\ pc = "fallbackPrompt"
  /\ useTestPatch' = answer
  /\ IF answer # "Cancel"
     THEN /\ patch' = TestPatch
          /\ Logged("showInformationMessage", 214, 0)
          /\ pc' = "applyPatch"
          /\ UNCHANGED outcome
     ELSE Return /\ UNCHANGED <<patch, log>>
  /\ UNCHANGED <<globalState, setCalls, token, commitHash, tag, pages, page,
                 tags, workspaceOpen, caught, msg, ok, disk, raw, patchResult,
                 apiResult>>

\* Lines 198-217: the fallback prompt resolves.
FallbackPrompt(answer) ==
  /\ pc = "fallbackPrompt"
  /\ useTestPatch' = answer
  /\ IF answer = "Use Test Patch"
     THEN /\ patch' = TestPatch
          /\ Logged("showInformationMessage", 214, 0)
          /\ pc' = "applyPatch"
          /\ UNCHANGED outcome
     ELSE Return /\ UNCHANGED <<patch, log>>
  /\ UNCHANGED <<globalState, setCalls, token, commitHash, tag, pages, page,
                 tags, workspaceOpen, caught, msg, ok, disk, raw, patchResult,
                 apiResult>>

\* Lines 223-232 with modifyFileWithPatch, lines 88-109.
ApplyPatch ==
  /\ pc = "applyPatch"
  /\ LET r == ModifyFileWithPatch(disk, patch.startLine, patch.endLine, patch.patch)
     IN /\ patchResult' = r.result
        /\ raw' = r.raw
        /\ disk' = IF r.wrote THEN File(r.content) ELSE disk
        /\ log' = log \o <<Eff("fs.readFile", 88, 0)>>
                      \o (IF r.wrote THEN <<Eff("fs.writeFile", 109, 0)>> ELSE <<>>)
                      \o (IF r.result = "ok"
                          THEN <<Eff("showInformationMessage", 229, 0)>>
                          ELSE <<Eff("showErrorMessage", 231, 0)>>)
  /\ Return
  /\ UNCHANGED <<globalState, setCalls, token, commitHash, tag, patch, pages,
                 page, tags, workspaceOpen, caught, msg, ok,
                 apiResult, useTestPatch>>

Next ==
  \/ \E input \in TokenInputs : SetGitHubToken(input)
  \/ TokenCheck
  \/ \E input \in CommitInputs : CommitPrompt(input)
  \/ FetchTagsPage
  \/ \E pick \in TagNames \cup {Undefined} : TagPrompt(pick)
  \/ \E failed \in BOOLEAN, m \in ErrMsgs : GitFetchTags(failed, m)
  \/ \E failed \in BOOLEAN, m \in ErrMsgs : GitCheckout(failed, m)
  \/ \E answer \in {"Add & Retry", Undefined} : DubiousPrompt(answer)
  \/ \E failed \in BOOLEAN : GitConfig(failed)
  \/ \E failed \in BOOLEAN : GitRetry(failed)
  \/ \E failed \in BOOLEAN, data \in CmdPatches : CallPatchApi(failed, data)
  \/ \E answer \in {"Use Test Patch", "Cancel", Undefined} : FallbackPrompt(answer)
  \/ ApplyPatch

Spec == Init /\ [][Next]_vars

(***************************************************************************)
(* modifyFileWithPatch on its own: the command at its patch step, for      *)
(* every file and every patch instruction of the bounds.                   *)
(***************************************************************************)
\* Line k of a file without its leading spaces and tabs.
RECURSIVE DropIndent(_)
DropIndent(line) ==
  IF line # <<>> /\ Head(line) \in {SP, TAB} THEN DropIndent(Tail(line)) ELSE line

\* The instructions that put a line back in its own place.
SameLinePatches(content) ==
  LET lines == Split(content)
  IN {ApiPatch(k, k, DropIndent(lines[k])) : k \in 1..Len(lines)}

InitPatch ==
  /\ globalState = "ghp_A" /\ setCalls = 0
  /\ pc = "applyPatch" /\ outcome = "none"
  /\ token = "ghp_A" /\ commitHash = "abc123" /\ tag = "v1"
  /\ page = 0 /\ tags = <<>> /\ pages = <<>>
  /\ workspaceOpen = TRUE
  /\ caught = FALSE /\ msg = <<>> /\ ok = Undefined
  /\ raw = <<>> /\ patchResult = "none" /\ log = <<>>
  /\ apiResult = "ok" /\ useTestPatch = Undefined
  /\ disk \in Files \cup {MissingFile}
  /\ patch \in ApiPatches \cup SameLinePatches(disk.content)

NextPatch == ApplyPatch

SpecPatch == InitPatch /\ [][NextPatch]_vars

(***************************************************************************)
(* fetchTags on its own, for every content of the tags endpoint of the     *)
(* bounds.                                                                 *)
(***************************************************************************)
InitTags ==
  /\ globalState = "ghp_A" /\ setCalls = 0
  /\ pc = "fetchTags" /\ outcome = "none"
  /\ token = "ghp_A" /\ commitHash = "abc123" /\ tag = Undefined
  /\ patch = NoPatch
  /\ page = 1 /\ tags = <<>>
  /\ pages \in SeqsUpTo(PageValues, MaxPages)
  /\ workspaceOpen = TRUE
  /\ caught = FALSE /\ msg = <<>> /\ ok = Undefined
  /\ disk = MissingFile
  /\ raw = <<>> /\ patchResult = "none" /\ log = <<>>
  /\ apiResult = "none" /\ useTestPatch = Undefined

NextTags == FetchTagsPage

\* An awaited reply is delivered: the loop is not starved.
SpecTags == InitTags /\ [][NextTags]_vars /\ WF_vars(NextTags)

(***************************************************************************)
(* Properties of modifyFileWithPatch, under SpecPatch.                     *)
(***************************************************************************)
\* The number of elements of raw.split(/\r?\n/): one more than the LFs.
NumLines(text) == Cardinality({i \in 1..Len(text) : text[i] = LF}) + 1

\* The leading run of spaces and tabs of a line.
LeadingWs(line) == SubSeq(line, 1, Len(line) - Len(DropIndent(line)))

\* Each line followed by an LF; each line preceded by an LF.
RECURSIVE EachThenLF(_)
EachThenLF(lines) ==
  IF lines = <<>> THEN <<>> ELSE Head(lines) \o <<LF>> \o EachThenLF(Tail(lines))
RECURSIVE EachAfterLF(_)
EachAfterLF(lines) ==
  IF lines = <<>> THEN <<>> ELSE <<LF>> \o Head(lines) \o EachAfterLF(Tail(lines))

\* modifyFileWithPatch ran on an existing file / ran and wrote.
Patched == pc = "done" /\ patchResult # "none" /\ patchResult # "ENOENT"
PatchedOk == pc = "done" /\ patchResult = "ok"

\* C1: a call with startLine <= 0, or endLine > n, or startLine > endLine,
\* n being the number of lines of the file, fails with the invalid-range
\* error, writes nothing, and leaves the file as it was read.
C1_InvalidRangeRejected ==
  (Patched /\ (\/ patch.startLine <= 0
               \/ patch.endLine > NumLines(raw)
               \/ patch.startLine > patch.endLine))
    => /\ patchResult = "Invalid line range"
       /\ Count(109) = 0
       /\ disk = File(raw)

\* A call whose only fault is startLine > endLine, on a file ending in a
\* newline, was rejected and the file is as it was.
C1_Witness ==
  /\ Patched
  /\ patch.startLine > patch.endLine /\ patch.endLine >= 1
  /\ patch.startLine <= NumLines(raw)
  /\ Len(raw) > 0 /\ raw[Len(raw)] = LF
  /\ patchResult = "Invalid line range"
  /\ disk = File(raw)

\* C2: a successful call on lines L1..Ln with range [s,e] writes L1..L(s-1),
\* the re-indented block, L(e+1)..Ln, with exactly one LF between
\* neighbours, whatever line endings the file had.
C2_SpliceExact ==
  PatchedOk =>
    LET L == Split(raw)
        s == patch.startLine
        e == patch.endLine
        B == IndentedPatch(Indent(L[s]), patch.patch)
    IN /\ 1 <= s /\ s <= e /\ e <= Len(L)
       /\ disk.content = EachThenLF(SubSeq(L, 1, s - 1)) \o B
                           \o EachAfterLF(SubSeq(L, e + 1, Len(L)))

\* A file with a CR LF line ending was patched in its middle: a line before
\* and a line after the range were kept.
C2_Witness ==
  /\ PatchedOk
  /\ \E i \in 1..(Len(raw) - 1) : raw[i] = CR /\ raw[i + 1] = LF
  /\ patch.startLine > 1 /\ patch.endLine < NumLines(raw)

\* C3: after a successful call every line of the patch text, blank ones
\* included, stands in the file prefixed with exactly the leading run of
\* spaces and tabs of the range's first line.
C3_IndentIsExactRun ==
  PatchedOk =>
    LET L == Split(raw)
        s == patch.startLine
        e == patch.endLine
        W == LeadingWs(L[s])
        T == Split(patch.patch)
        B == Join([i \in 1..Len(T) |-> W \o T[i]], <<LF>>)
    IN disk.content = EachThenLF(SubSeq(L, 1, s - 1)) \o B
                        \o EachAfterLF(SubSeq(L, e + 1, Len(L)))

\* C4: replacing line k by its own content without its leading white space
\* leaves the file content as it was.
C4_SameLineRoundTrips ==
  (/\ PatchedOk
   /\ patch.startLine = patch.endLine
   /\ patch.patch = DropIndent(Split(raw)[patch.startLine]))
    => disk.content = raw

(***************************************************************************)
(* Properties of fetchTags, under SpecTags.                                *)
(***************************************************************************)
\* The pages requested so far, in order.
RequestedPages ==
  LET f == SelectSeq(log, LAMBDA e : e.line = 40)
  IN [i \in 1..Len(f) |-> f[i].arg]

\* The first page whose reply is the empty array.
FirstEmptyPage(script) ==
  CHOOSE p \in 1..(Len(script) + 1) :
    /\ PageReply(script, p) = ArrayPage(<<>>)
    /\ \A q \in 1..(p - 1) : PageReply(script, q) # ArrayPage(<<>>)

\* The first page whose reply is not a non-empty array.
FirstStopPage(script) ==
  CHOOSE p \in 1..(Len(script) + 1) :
    /\ ~(PageReply(script, p).kind = "array" /\ PageReply(script, p).names # <<>>)
    /\ \A q \in 1..(p - 1) :
         PageReply(script, q).kind = "array" /\ PageReply(script, q).names # <<>>

\* The names of pages 1..k, page by page.
RECURSIVE NamesUpTo(_, _)
NamesUpTo(script, k) ==
  IF k = 0 THEN <<>> ELSE NamesUpTo(script, k - 1) \o PageReply(script, k).names

\* C5 as stated: fetchTags returns after exactly p requests, p the first
\* empty-array page, with the names of pages 1..p-1.
C5_StopsAtFirstEmptyArray ==
  pc = "tagPrompt" =>
    LET p == FirstEmptyPage(pages)
    IN RequestedPages = [i \in 1..p |-> i] /\ tags = NamesUpTo(pages, p - 1)

C5_StopInv ==
  LET p == FirstStopPage(pages)
      req == RequestedPages
  IN /\ req = [i \in 1..Len(req) |-> i]
     /\ Len(req) <= p
     /\ pc = "fetchTags" => page = Len(req) + 1
     /\ pc = "tagPrompt" => /\ Len(req) = p
                            /\ PageReply(pages, p).kind # "error"
                            /\ tags = NamesUpTo(pages, p - 1)
     /\ pc = "done" => Len(req) = p /\ PageReply(pages, p).kind = "error"

\* C5, amended: pages are requested in the order 1, 2, 3, ..., one at a
\* time; with p the first page whose reply is not a non-empty array,
\* fetchTags makes exactly p requests and ends: it returns the names of
\* pages 1..p-1 in reply order when reply p is JSON (an empty array or any
\* other value), and throws when request p fails.
C5_StopsAtFirstNonArrayOrEmpty == [](C5_StopInv) /\ <>(pc # "fetchTags")

\* Three non-empty pages, then the empty one: four requests, all names.
C5_Witness ==
  /\ pc = "tagPrompt"
  /\ Len(pages) = 3
  /\ \A q \in 1..3 : pages[q].kind = "array" /\ pages[q].names # <<>>
  /\ RequestedPages = <<1, 2, 3, 4>>
  /\ tags = pages[1].names \o pages[2].names \o pages[3].names

(***************************************************************************)
(* Properties of the backport command, under Spec.                         *)
(***************************************************************************)
NetworkLines == {40, 131}
GitLines == {56, 57, 67, 68}
FileLines == {88, 109}
LinesLogged == {log[i].line : i \in 1..Len(log)}

\* checkoutTag was called and is over.
CheckoutOver == pc \in {"callPatchApi", "fallbackPrompt", "applyPatch", "done"}
                  /\ Count(56) = 1

\* git config was run and failed: the command showed the error right away.
ConfigFailed ==
  \E i \in 1..(Len(log) - 1) : log[i].line = 67 /\ log[i + 1].line = 179

\* C6 as stated: a failure with the recognised text makes exactly one
\* remediation call and one retry, any other none, and the checkout is
\* never retried twice.
C6_DubiousAlwaysRetries ==
  /\ Count(68) <= 1
  /\ (CheckoutOver /\ caught) =>
       IF Includes(msg, "dubious ownership")
       THEN Count(67) = 1 /\ Count(68) = 1
       ELSE Count(67) = 0 /\ Count(68) = 0

\* C6, amended: a failure of git fetch or git checkout whose text contains
\* "dubious ownership" opens a confirmation prompt; exactly one remediation
\* call is made if and only if the user answers "Add & Retry", followed,
\* when that call succeeds, by exactly one retry of the checkout; a declined
\* prompt, or a failure with any other text, makes no remediation call and
\* no retry; the checkout is never retried more than once.
C6_RetryOnlyOnConfirm ==
  /\ Count(67) <= 1 /\ Count(68) <= 1
  /\ Count(62) = (IF caught /\ Includes(msg, "dubious ownership") THEN 1 ELSE 0)
  /\ Count(67) = 1 =>
       caught /\ Includes(msg, "dubious ownership") /\ ok = "Add & Retry"
  /\ Count(68) = 1 =>
       \E i, j \in 1..Len(log) : i < j /\ log[i].line = 67 /\ log[j].line = 68
  /\ (CheckoutOver /\ caught) =>
       IF Includes(msg, "dubious ownership") /\ ok = "Add & Retry"
       THEN Count(67) = 1 /\ Count(68) = (IF ConfigFailed THEN 0 ELSE 1)
       ELSE Count(67) = 0 /\ Count(68) = 0

\* A dubious-ownership failure, confirmed: one remediation, then one retry.
C6_Witness ==
  /\ CheckoutOver /\ caught /\ Includes(msg, "dubious ownership")
  /\ ok = "Add & Retry"
  /\ Count(67) = 1 /\ Count(68) = 1

\* C7: with no token stored (missing or empty) the command shows the error
\* message and ends: no network request, no git command, no file access.
C7_NoTokenNoEffects ==
  (pc # "idle" /\ ~Truthy(token)) =>
    /\ pc = "done" /\ outcome = "returned"
    /\ log = <<Eff("showErrorMessage", 158, 0)>>
    /\ LinesLogged \cap (NetworkLines \cup GitLines \cup FileLines) = {}

\* The command ran without a token and ended on the error message.
C7_Witness ==
  /\ pc = "done" /\ token = Undefined
  /\ log = <<Eff("showErrorMessage", 158, 0)>>

\* C8: no failure of a step leaves backportToCommand as a rejection.
C8_NoRejection == outcome # "rejected"

\* C9: when the remote call fails the fallback prompt is offered; the
\* demonstration patch is used only on the answer "Use Test Patch", and
\* announced; on any other answer the command returns without reading or
\* writing a file.
C9_FallbackOnlyOnChoice ==
  /\ apiResult = "failed" => Count(198) = 1 /\ outcome # "rejected"
  /\ Count(198) = 1 => apiResult = "failed"
  /\ patch = TestPatch =>
       /\ apiResult = "failed"
       /\ useTestPatch = "Use Test Patch"
       /\ Count(214) = 1
  /\ (apiResult = "failed" /\ pc # "fallbackPrompt"
        /\ useTestPatch # "Use Test Patch") =>
       /\ pc = "done" /\ outcome = "returned"
       /\ patch = NoPatch
       /\ LinesLogged \cap FileLines = {}
  /\ (apiResult = "failed" /\ pc = "done"
        /\ useTestPatch = "Use Test Patch") =>
       /\ patch = TestPatch /\ Count(88) = 1

\* The remote call failed, the user chose the demonstration patch, and it
\* was written.
C9_Witness ==
  /\ pc = "done" /\ apiResult = "failed"
  /\ useTestPatch = "Use Test Patch"
  /\ patch = TestPatch /\ patchResult = "ok" /\ Count(109) = 1

\* The step an effect belongs to.
Stage(line) ==
  IF line = 158 THEN 1
  ELSE IF line = 165 THEN 2
  ELSE IF line \in {40, 172} THEN 3
  ELSE IF line \in {56, 57, 58, 62, 67, 68, 69, 179} THEN 4
  ELSE IF line \in {189, 131, 191, 198, 214} THEN 5
  ELSE 6

CheckoutSucceeded == Count(58) + Count(69) = 1 /\ Count(179) = 0

\* C10: the effects of the command come in the order token check, commit
\* prompt, tag listing and selection, checkout, remote call, patch apply;
\* the remote call is made only after a commit and a tag were given and the
\* checkout succeeded; the file is read and written only after that and
\* with a patch instruction in hand; a dismissed prompt, a missing
\* workspace or a failed checkout ends the command with neither.
C10_StepsInOrder ==
  /\ \A i, j \in 1..Len(log) : i < j => Stage(log[i].line) <= Stage(log[j].line)
  /\ Count(40) >= 1 => Truthy(token) /\ Truthy(commitHash)
  /\ LinesLogged \cap GitLines # {} =>
       Truthy(commitHash) /\ Truthy(tag) /\ workspaceOpen /\ Count(172) = 1
  /\ Count(131) >= 1 =>
       /\ Count(131) = 1
       /\ Truthy(commitHash) /\ Truthy(tag) /\ workspaceOpen
       /\ CheckoutSucceeded
  /\ LinesLogged \cap FileLines # {} =>
       /\ Count(131) = 1 /\ CheckoutSucceeded
       /\ patch # NoPatch
       /\ apiResult = "ok" \/ useTestPatch = "Use Test Patch"
  /\ (pc = "done" /\ (\/ ~Truthy(commitHash) \/ ~Truthy(tag)
                      \/ ~workspaceOpen \/ Count(179) >= 1)) =>
       /\ Count(131) = 0
       /\ LinesLogged \cap FileLines = {}

\* The file was written after a checkout that succeeded on its retry.
C10_Witness ==
  /\ pc = "done" /\ Count(69) = 1 /\ Count(131) = 1
  /\ apiResult = "ok" /\ Count(109) = 1

====
